---- MODULE Spec2Model ----
(***************************************************************************)
(* Model of the AI doctor chat session (src/App.tsx) and of the request    *)
(* builder chatWithDoctor (src/services/geminiService.ts).                 *)
(*                                                                         *)
(* Strings are sequences of tokens: a text is a sequence of characters, an *)
(* image payload is a sequence of lexical pieces ("data:", "image/",       *)
(* "png", ";base64,", the encoded bytes).                                  *)
(***************************************************************************)
EXTENDS Integers, Sequences, FiniteSets, TLC

(***************************************************************************)
(* Program constants.                                                      *)
(***************************************************************************)
MAX_TURNS == 10
MAX_HISTORY_MESSAGES == 10
ImageSlots == 2
RecentImagePositions == 2

(***************************************************************************)
(* Bounds of the model.                                                    *)
(***************************************************************************)
\* Spec explores whole sessions, up to the turn limit, in a quiet environment:
\* files whose read is started plus model calls that end otherwise than with a
\* plain text reply, during one session
MaxEvents == 1
\* ShortSpec explores the first turns of a session in a busy environment:
\* submits accepted
ShortMaxTurns == 2
\* files whose read is started plus model calls that end otherwise than with a
\* plain text reply
ShortMaxEvents == 3
\* files offered to the file picker in one selection
MaxPick == 3
\* BuildSpec applies chatWithDoctor to arbitrary histories:
\* length of a history
MaxHist == 11
\* RenderSpec: chunks in the grounding metadata of one reply
MaxChunks == 3

\* An optional value is a sequence of at most one element: undefined and null
\* are the empty one, a value v that is present is <<v>>.
Undefined == <<>>
Null == <<>>
Some(v) == <<v>>
Value(opt) == opt[1]

IDLE == "IDLE"
THINKING == "THINKING"

(***************************************************************************)
(* Fixed texts.                                                            *)
(***************************************************************************)
WelcomeText == <<"welcome">>
ErrorText == <<"fallback">>
ClarifyText == <<"clarify">>
ReplyText == <<"r">>

Last(s) == s[Len(s)]

(***************************************************************************)
(* String.prototype.trim on a sequence of characters.                      *)
(***************************************************************************)
IsSpace(c) == c = " "

RECURSIVE TrimStart(_)
TrimStart(s) ==
    IF s # <<>> /\ IsSpace(Head(s)) THEN TrimStart(Tail(s)) ELSE s

RECURSIVE TrimEnd(_)
TrimEnd(s) ==
    IF s # <<>> /\ IsSpace(Last(s)) THEN TrimEnd(SubSeq(s, 1, Len(s) - 1)) ELSE s

Trim(s) == TrimEnd(TrimStart(s))

(***************************************************************************)
(* Image payloads and the two regular expressions of chatWithDoctor.       *)
(***************************************************************************)
Words == {"png", "jpeg", "pdf"}

\* FileReader.readAsDataURL: "data:" + the file's media type + ";base64," + bytes
ReadAsDataURL(file) == <<"data:">> \o file.type \o <<";base64,", file.bytes>>

\* variant: the check of the prefix is left out
StartsWithDataUnchecked(img) == TRUE

\* img.startsWith('data:')
StartsWithData(img) == Len(img) >= 1 /\ img[1] = "data:"

\* /^data:image\/\w+;base64,/ matches a prefix of img
MatchesImagePrefix(img) ==
    /\ Len(img) >= 4
    /\ img[1] = "data:"
    /\ img[2] = "image/"
    /\ img[3] \in Words
    /\ img[4] = ";base64,"

\* img.replace(/^data:image\/\w+;base64,/, "")
Base64Data(img) ==
    IF MatchesImagePrefix(img) THEN SubSeq(img, 5, Len(img)) ELSE img

\* mimeMatch ? mimeMatch[1] : 'image/jpeg'
MimeType(img) ==
    IF MatchesImagePrefix(img) THEN <<img[2], img[3]>> ELSE <<"image/", "jpeg">>

InlinePart(img) ==
    [inlineData |-> [mimeType |-> MimeType(img), data |-> Base64Data(img)]]

TextPart(t) == [text |-> t]

RECURSIVE SelectSeq2(_, _)
\* the inline parts of the images of imgs for which keep[i] holds, in order
SelectSeq2(imgs, keep) ==
    IF imgs = <<>> THEN <<>>
    ELSE (IF keep[1] THEN <<InlinePart(Head(imgs))>> ELSE <<>>)
         \o SelectSeq2(Tail(imgs), Tail(keep))

(***************************************************************************)
(* chatWithDoctor: the request it builds.                                  *)
(***************************************************************************)
\* variant: history.slice(0, MAX_HISTORY_MESSAGES) keeps the oldest messages
RecentHistoryOldest(history) ==
    IF Len(history) <= MAX_HISTORY_MESSAGES THEN history
    ELSE SubSeq(history, 1, MAX_HISTORY_MESSAGES)

\* history.slice(-MAX_HISTORY_MESSAGES)
RecentHistory(history) ==
    IF Len(history) <= MAX_HISTORY_MESSAGES THEN history
    ELSE SubSeq(history, Len(history) - MAX_HISTORY_MESSAGES + 1, Len(history))

\* variant: index >= recentHistory.length - 2 taken with the 1-based position
IsRecentWithImageOffByOne(i, n) == i >= n - RecentImagePositions

\* index >= recentHistory.length - 2, with index = i - 1
IsRecentWithImage(i, n) == i - 1 >= n - RecentImagePositions

\* the image parts of one history message at position i of a window of n
HistoryImageParts(msg, i, n) ==
    IF msg.images # Undefined /\ Len(Value(msg.images)) > 0 /\ IsRecentWithImage(i, n)
    THEN SelectSeq2(Value(msg.images),
                    [k \in 1..Len(Value(msg.images)) |->
                        StartsWithData(Value(msg.images)[k])])
    ELSE <<>>

HistoryContent(msg, i, n) ==
    [role |-> msg.role, parts |-> <<TextPart(msg.text)>> \o HistoryImageParts(msg, i, n)]

\* the images parameter defaults to [] when the caller passes undefined
ImagesOrEmpty(images) == IF images = Undefined THEN <<>> ELSE Value(images)

\* variant: the new images pass the prefix test of the history loop
CurrentPartsDataOnly(newMessage, images) ==
    <<TextPart(newMessage)>>
    \o SelectSeq2(ImagesOrEmpty(images),
                  [k \in 1..Len(ImagesOrEmpty(images)) |->
                      StartsWithData(ImagesOrEmpty(images)[k])])

\* currentParts: the text of the new turn, then one part per attached image
CurrentParts(newMessage, images) ==
    <<TextPart(newMessage)>>
    \o SelectSeq2(ImagesOrEmpty(images),
                  [k \in 1..Len(ImagesOrEmpty(images)) |-> TRUE])

Contents(history, newMessage, images) ==
    LET recent == RecentHistory(history)
    IN  [i \in 1..Len(recent) |-> HistoryContent(recent[i], i, Len(recent))]
        \o <<[role |-> "user", parts |-> CurrentParts(newMessage, images)]>>

\* variant: the coordinates are never passed on
ToolConfigNever(location) == Undefined

\* location ? toolConfig : undefined, with the toolConfig of lines 87-98
ToolConfig(location) ==
    IF location # Null
    THEN Some([retrievalConfig |->
                 [latLng |-> [latitude |-> Value(location).latitude,
                              longitude |-> Value(location).longitude]]])
    ELSE Undefined

GenerateContentRequest(history, newMessage, images, location) ==
    [contents |-> Contents(history, newMessage, images),
     tools |-> <<"googleMaps">>,
     toolConfig |-> ToolConfig(location)]

(***************************************************************************)
(* chatWithDoctor: what it returns for a response of the model service.    *)
(***************************************************************************)
\* response.text || ""
ResponseText(response) ==
    IF response.text = Undefined THEN <<>> ELSE Value(response.text)

\* variant: an empty response is returned as it is
ChatResultAsIs(response) ==
    [text |-> ResponseText(response),
     groundingMetadata |-> response.groundingMetadata]

\* the return value of lines 132-139
ChatResult(response) ==
    IF ResponseText(response) = <<>> /\ response.groundingMetadata = Undefined
    THEN [text |-> ClarifyText, groundingMetadata |-> Undefined]
    ELSE [text |-> ResponseText(response),
          groundingMetadata |-> response.groundingMetadata]

(***************************************************************************)
(* renderGrounding: the links a bubble shows for the grounding metadata of *)
(* its message.  A URI is a sequence of pieces; includes() looks for the   *)
(* piece "google.com/maps".                                                *)
(***************************************************************************)
\* uri.includes('google.com/maps')
Includes(uri, piece) == \E k \in 1..Len(uri) : uri[k] = piece

\* c.web?.uri is there and is not the empty string
HasWebUri(c) ==
    /\ "web" \in DOMAIN c
    /\ "uri" \in DOMAIN c.web
    /\ c.web.uri # <<>>

\* variant: every chunk with a web URI passes
IsMapChunkAnyWeb(c) == HasWebUri(c)

\* c.web?.uri && c.web.uri.includes('google.com/maps')
IsMapChunk(c) == HasWebUri(c) /\ Includes(c.web.uri, "google.com/maps")

\* metadata.groundingChunks.filter(...)
mapChunks(groundingChunks) == SelectSeq(groundingChunks, IsMapChunk)

\* chunk.web?.title || 'Google Maps'
LinkTitle(c) ==
    IF "title" \in DOMAIN c.web /\ c.web.title # "" THEN c.web.title
    ELSE "Google Maps"

\* null, or the list of links of the map chunks
renderGrounding(metadata) ==
    IF metadata = Undefined \/ "groundingChunks" \notin DOMAIN Value(metadata)
    THEN Null
    ELSE LET chunks == mapChunks(Value(metadata).groundingChunks)
         IN  IF Len(chunks) = 0 THEN Null
             ELSE Some([k \in 1..Len(chunks) |->
                          [href |-> chunks[k].web.uri, title |-> LinkTitle(chunks[k])]])

(***************************************************************************)
(* Input sets.                                                             *)
(***************************************************************************)
InputTexts == {<<>>, <<" ">>, <<"a">>}

PNG == [type |-> <<"image/", "png">>, bytes |-> "AAAA"]
Files == {PNG}

Locations == {[latitude |-> 35, longitude |-> 139]}

MapChunk == [web |-> [uri |-> <<"https://", "google.com/maps", "/place">>, title |-> "clinic"]]
WebChunk == [web |-> [uri |-> <<"https://", "example.com">>, title |-> "page"]]
Metas == {[groundingChunks |-> <<MapChunk>>], [groundingChunks |-> <<WebChunk>>]}
OptionalMetas == {Undefined} \cup {Some(m) : m \in Metas}

Responses ==
    [text : {Undefined, Some(<<>>), Some(ReplyText)}, groundingMetadata : OptionalMetas]

PlainResponse == [text |-> Some(ReplyText), groundingMetadata |-> Undefined]

\* the selections of 1..MaxPick files the file picker can deliver
Picks == UNION {[1..n -> Files] : n \in 1..MaxPick}

(***************************************************************************)
(* State of the App component and of its environment.                      *)
(***************************************************************************)
VARIABLES
    messages,        \* useState<Message[]>: the session log
    inputText,       \* useState(''): the text buffer
    attachedImages,  \* useState<string[]>: the staged images
    status,          \* useState<AppStatus>
    location,        \* useState<UserLocation | null>
    apiKey,          \* whether process.env.API_KEY is a non-empty string
    reading,         \* FileReaders in flight: how many per file
    outstanding,     \* chatWithDoctor calls whose promise is not settled
    ncalls,          \* chatWithDoctor calls started so far
    nsent,           \* generateContent requests sent so far
    nfiles,          \* file reads started so far
    nodd,            \* model calls that ended otherwise than with PlainResponse
    lastSubmit       \* how the latest handleSendMessage ended

vars == <<messages, inputText, attachedImages, status, location, apiKey,
          reading, outstanding, ncalls, nsent, nfiles, nodd, lastSubmit>>

Message(role, text, images, meta) ==
    [role |-> role, text |-> text, images |-> images, groundingMetadata |-> meta]

WelcomeMessage == Message("model", WelcomeText, Undefined, Undefined)

RECURSIVE CountRole(_, _)
\* messages.filter(m => m.role === role).length
CountRole(log, role) ==
    IF log = <<>> THEN 0
    ELSE (IF Head(log).role = role THEN 1 ELSE 0) + CountRole(Tail(log), role)

userMessageCount == CountRole(messages, "user")

\* variant: > in place of >=
isLimitReachedOffByOne == userMessageCount > MAX_TURNS

isLimitReached == userMessageCount >= MAX_TURNS

Init ==
    /\ messages = <<WelcomeMessage>>
    /\ inputText = <<>>
    /\ attachedImages = <<>>
    /\ status = IDLE
    /\ location = Null
    /\ apiKey \in BOOLEAN
    /\ reading = [f \in Files |-> 0]
    /\ outstanding = {}
    /\ ncalls = 0
    /\ nsent = 0
    /\ nfiles = 0
    /\ nodd = 0
    /\ lastSubmit = "none"

(***************************************************************************)
(* navigator.geolocation.getCurrentPosition: one callback, once.           *)
(***************************************************************************)
\* the success callback sets the location; the error callback only logs
GeoSuccess ==
    /\ location = Null
    /\ \E loc \in Locations : location' = Some(loc)
    /\ UNCHANGED <<messages, inputText, attachedImages, status, apiKey, reading,
                   outstanding, ncalls, nsent, nfiles, nodd, lastSubmit>>

(***************************************************************************)
(* The input controls.  The form is rendered only while the limit is not   *)
(* reached; the text input and the file input are disabled while THINKING, *)
(* the file input also while two images are staged.                        *)
(***************************************************************************)
FormRendered == ~isLimitReached

SetInputText ==
    /\ FormRendered
    /\ status # THINKING
    /\ \E t \in InputTexts : t # inputText /\ inputText' = t
    /\ UNCHANGED <<messages, attachedImages, status, location, apiKey, reading,
                   outstanding, ncalls, nsent, nfiles, nodd, lastSubmit>>

FileInputEnabled ==
    FormRendered /\ ~(Len(attachedImages) >= ImageSlots \/ status = THINKING)

\* Array.from(files).slice(0, remainingSlots)
FilesToProcess(files, staged) ==
    LET remainingSlots == ImageSlots - Len(staged)
    IN  SubSeq(files, 1, IF Len(files) < remainingSlots THEN Len(files)
                          ELSE remainingSlots)

RECURSIVE StartReads(_, _)
StartReads(rd, files) ==
    IF files = <<>> THEN rd
    ELSE StartReads([rd EXCEPT ![Head(files)] = @ + 1], Tail(files))

handleImageUpload(maxFiles) ==
    /\ FileInputEnabled
    /\ \E files \in Picks :
         LET filesToProcess == FilesToProcess(files, attachedImages)
         IN  /\ nfiles + Len(filesToProcess) <= maxFiles
             /\ reading' = StartReads(reading, filesToProcess)
             /\ nfiles' = nfiles + Len(filesToProcess)
    /\ UNCHANGED <<messages, inputText, attachedImages, status, location, apiKey,
                   outstanding, ncalls, nsent, nodd, lastSubmit>>

\* reader.onloadend: setAttachedImages(prev => [...prev, reader.result])
ReaderLoadEnd ==
    /\ \E f \in Files :
         /\ reading[f] > 0
         /\ reading' = [reading EXCEPT ![f] = @ - 1]
         /\ attachedImages' = Append(attachedImages, ReadAsDataURL(f))
    /\ UNCHANGED <<messages, inputText, status, location, apiKey, outstanding,
                   ncalls, nsent, nfiles, nodd, lastSubmit>>

\* prev.filter((_, i) => i !== index)
RemoveAt(s, i) == SubSeq(s, 1, i - 1) \o SubSeq(s, i + 1, Len(s))

removeImage ==
    /\ FormRendered
    /\ \E i \in 1..Len(attachedImages) : attachedImages' = RemoveAt(attachedImages, i)
    /\ UNCHANGED <<messages, inputText, status, location, apiKey, reading,
                   outstanding, ncalls, nsent, nfiles, nodd, lastSubmit>>

(***************************************************************************)
(* handleSendMessage, up to the await of chatWithDoctor.                   *)
(* The handler guards itself (line 73), so a submit is taken in every      *)
(* state, whatever the controls show.  Every handler reads the state of    *)
(* the latest render.                                                      *)
(***************************************************************************)
\* variant: the status is not looked at
SubmitReturnsEarlyNoBusy ==
    \/ (Trim(inputText) = <<>> /\ Len(attachedImages) = 0)
    \/ isLimitReached

\* variant: the text is not trimmed
SubmitReturnsEarlyNoTrim ==
    \/ (inputText = <<>> /\ Len(attachedImages) = 0)
    \/ status = THINKING
    \/ isLimitReached

\* variant: a blank text returns early whatever is staged
SubmitReturnsEarlyTextOnly ==
    \/ Trim(inputText) = <<>>
    \/ status = THINKING
    \/ isLimitReached

\* the early return of line 73
SubmitReturnsEarly ==
    \/ (Trim(inputText) = <<>> /\ Len(attachedImages) = 0)
    \/ status = THINKING
    \/ isLimitReached

userMsg ==
    Message("user", inputText,
            IF Len(attachedImages) > 0 THEN Some(attachedImages) ELSE Undefined,
            Undefined)

\* variant: the history is read after the user message was appended
currentHistoryAfterAppend == Append(messages, userMsg)

\* const currentHistory = messages: the log of the render the handler closes over
currentHistory == messages

\* variant: getClient does not look at the key
ChatCallNoKeyCheck(id, history, newMessage, images, loc) ==
    [id |-> id, history |-> history, newMessage |-> newMessage, images |-> images,
     location |-> loc,
     request |-> Some(GenerateContentRequest(history, newMessage, images, loc))]

\* chatWithDoctor up to its await: getClient throws without a key, and then no
\* request is built; otherwise the request is built and sent with generateContent
ChatCall(id, history, newMessage, images, loc) ==
    [id |-> id, history |-> history, newMessage |-> newMessage, images |-> images,
     location |-> loc,
     request |-> IF apiKey
                 THEN Some(GenerateContentRequest(history, newMessage, images, loc))
                 ELSE Undefined]

SubmitRejected ==
    /\ SubmitReturnsEarly
    /\ lastSubmit' = "rejected"
    /\ UNCHANGED <<messages, inputText, attachedImages, status, location, apiKey,
                   reading, outstanding, ncalls, nsent, nfiles, nodd>>

SubmitAccepted ==
    /\ ~SubmitReturnsEarly
    /\ messages' = Append(messages, userMsg)
    /\ inputText' = <<>>
    /\ attachedImages' = <<>>
    /\ status' = THINKING
    /\ LET call == ChatCall(ncalls + 1, currentHistory, userMsg.text,
                            userMsg.images, location)
       IN  /\ outstanding' = outstanding \cup {call}
           /\ nsent' = IF call.request # Undefined THEN nsent + 1 ELSE nsent
    /\ ncalls' = ncalls + 1
    /\ lastSubmit' = "accepted"
    /\ UNCHANGED <<location, apiKey, reading, nfiles, nodd>>

handleSendMessage == SubmitRejected \/ SubmitAccepted

(***************************************************************************)
(* handleSendMessage after the await: the promise of chatWithDoctor is     *)
(* fulfilled or rejected, a model message is appended and the status is    *)
(* reset.                                                                  *)
(***************************************************************************)
botMsg(response) ==
    Message("model", response.text, Undefined, response.groundingMetadata)

errorMsg == Message("model", ErrorText, Undefined, Undefined)

\* variant: the status is not reset after the reply
ResolveWithoutIdle(c, response) ==
    /\ messages' = Append(messages, botMsg(ChatResult(response)))
    /\ status' = status
    /\ outstanding' = outstanding \ {c}
    /\ ncalls' = ncalls

\* variant: the reply takes the place of the last entry of the log
ResolveWithReplace(c, response) ==
    /\ messages' = [messages EXCEPT ![Len(messages)] = botMsg(ChatResult(response))]
    /\ status' = IDLE
    /\ outstanding' = outstanding \ {c}
    /\ ncalls' = ncalls

\* try { ... setMessages(prev => [...prev, botMsg]) } finally { setStatus(IDLE) }
ResolveWith(c, response) ==
    /\ messages' = Append(messages, botMsg(ChatResult(response)))
    /\ status' = IDLE
    /\ outstanding' = outstanding \ {c}
    /\ ncalls' = ncalls

\* variant: the catch block takes the user message back
RejectWithRollback(c) ==
    /\ messages' = Append(SubSeq(messages, 1, Len(messages) - 1), errorMsg)
    /\ status' = IDLE
    /\ outstanding' = outstanding \ {c}
    /\ ncalls' = ncalls

\* variant: the catch block only logs the error
RejectWithSilent(c) ==
    /\ messages' = messages
    /\ status' = IDLE
    /\ outstanding' = outstanding \ {c}
    /\ ncalls' = ncalls

\* variant: the catch block calls chatWithDoctor once more
RejectWithRetry(c) ==
    /\ messages' = messages
    /\ status' = status
    /\ outstanding' = outstanding
    /\ ncalls' = ncalls + 1

\* catch { setMessages(prev => [...prev, errorMsg]) } finally { setStatus(IDLE) }
RejectWith(c) ==
    /\ messages' = Append(messages, errorMsg)
    /\ status' = IDLE
    /\ outstanding' = outstanding \ {c}
    /\ ncalls' = ncalls

\* generateContent returns a response
ServiceReplies(maxOdd) ==
    /\ \E c \in outstanding, response \in Responses :
         /\ c.request # Undefined
         /\ response # PlainResponse => nodd < maxOdd
         /\ nodd' = IF response # PlainResponse THEN nodd + 1 ELSE nodd
         /\ ResolveWith(c, response)
    /\ UNCHANGED <<inputText, attachedImages, location, apiKey, reading, nsent,
                   nfiles, lastSubmit>>

\* getClient threw, or generateContent threw or rejected, or reading the
\* response threw: chatWithDoctor rejects
ServiceFails(maxOdd) ==
    /\ \E c \in outstanding :
         /\ c.request # Undefined => nodd < maxOdd
         /\ nodd' = IF c.request # Undefined THEN nodd + 1 ELSE nodd
         /\ RejectWith(c)
    /\ UNCHANGED <<inputText, attachedImages, location, apiKey, reading, nsent,
                   nfiles, lastSubmit>>

Upload == handleImageUpload(MaxEvents - nodd)
Reply == ServiceReplies(MaxEvents - nfiles)
Fail == ServiceFails(MaxEvents - nfiles)

Next ==
    \/ GeoSuccess
    \/ SetInputText
    \/ Upload
    \/ ReaderLoadEnd
    \/ removeImage
    \/ SubmitRejected
    \/ SubmitAccepted
    \/ Reply
    \/ Fail

Spec == Init /\ [][Next]_vars

ShortUpload == handleImageUpload(ShortMaxEvents - nodd)
ShortReply == ServiceReplies(ShortMaxEvents - nfiles)
ShortFail == ServiceFails(ShortMaxEvents - nfiles)
ShortSubmitAccepted == ncalls < ShortMaxTurns /\ SubmitAccepted

ShortNext ==
    \/ GeoSuccess
    \/ SetInputText
    \/ ShortUpload
    \/ ReaderLoadEnd
    \/ removeImage
    \/ SubmitRejected
    \/ ShortSubmitAccepted
    \/ ShortReply
    \/ ShortFail

ShortSpec == Init /\ [][ShortNext]_vars

(***************************************************************************)
(* BuildSpec: chatWithDoctor applied to arbitrary arguments.  messages is  *)
(* the history argument, grown one message at a time; outstanding holds    *)
(* the call made with it.                                                  *)
(***************************************************************************)
ImgPNG == <<"data:", "image/", "png", ";base64,", "AAAA">>
ImgSVG == <<"data:", "image/", "svg+xml", ";base64,", "CCCC">>
ImgPDF == <<"data:", "application/", "pdf", ";base64,", "BBBB">>
ImgURL == <<"https://", "example.com/x.png">>

\* the images of a user message at position i of a history
HistoryImages(i) ==
    CASE i % 3 = 0 -> <<ImgPNG, ImgURL>>
      [] i % 3 = 1 -> <<ImgSVG>>
      [] OTHER     -> <<ImgURL, ImgPDF>>

\* the messages a history may hold at position i; the text tells the position
HistoryMessages(i) ==
    {Message("user", <<"m", ToString(i)>>, Some(HistoryImages(i)), Undefined),
     Message("model", <<"m", ToString(i)>>, Undefined, Undefined)}

NewImages ==
    {Undefined, Some(<<ImgPNG>>), Some(<<ImgURL, ImgPNG>>), Some(<<ImgPDF, ImgSVG>>)}

BuildInit ==
    /\ messages = <<>>
    /\ inputText = <<>>
    /\ attachedImages = <<>>
    /\ status = IDLE
    /\ location = Null
    /\ apiKey = TRUE
    /\ reading = [f \in Files |-> 0]
    /\ outstanding = {}
    /\ ncalls = 0
    /\ nsent = 0
    /\ nfiles = 0
    /\ nodd = 0
    /\ lastSubmit = "none"

BuildAppend ==
    /\ Len(messages) < MaxHist
    /\ \E m \in HistoryMessages(Len(messages) + 1) : messages' = Append(messages, m)
    /\ outstanding' = {}
    /\ UNCHANGED <<inputText, attachedImages, status, location, apiKey, reading,
                   ncalls, nsent, nfiles, nodd, lastSubmit>>

BuildCall ==
    /\ \E images \in NewImages :
         outstanding' = {ChatCall(1, messages, <<"a">>, images, location)}
    /\ UNCHANGED <<messages, inputText, attachedImages, status, location, apiKey,
                   reading, ncalls, nsent, nfiles, nodd, lastSubmit>>

BuildNext == BuildAppend \/ BuildCall

BuildSpec == BuildInit /\ [][BuildNext]_vars

\* the model call resolves whenever one is outstanding
Resolve == ShortReply \/ ShortFail

LiveSpec == ShortSpec /\ WF_vars(Resolve)

(***************************************************************************)
(* The grounding metadata a reply may carry: one request is in flight and  *)
(* the service answers it with any list of at most MaxChunks chunks.       *)
(***************************************************************************)
MapChunkUntitled == [web |-> [uri |-> <<"https://", "www.", "google.com/maps", "?q=1">>]]
MapsChunk == [maps |-> [uri |-> <<"https://", "maps.google.com", "/?cid=1">>, title |-> "pharmacy"]]
EmptyUriChunk == [web |-> [uri |-> <<>>, title |-> ""]]
Chunks == {MapChunk, WebChunk, MapChunkUntitled, MapsChunk, EmptyUriChunk}

ChunkSeqs == UNION {[1..n -> Chunks] : n \in 0..MaxChunks}

GroundMetas ==
    {[groundingChunks |-> chunks] : chunks \in ChunkSeqs}
    \cup {[webSearchQueries |-> <<>>]}

GroundedResponses ==
    [text : {Some(<<>>), Some(ReplyText)},
     groundingMetadata : {Some(m) : m \in GroundMetas}]

RenderInit ==
    /\ messages = <<WelcomeMessage, Message("user", <<"a">>, Undefined, Undefined)>>
    /\ inputText = <<>>
    /\ attachedImages = <<>>
    /\ status = THINKING
    /\ location = Null
    /\ apiKey = TRUE
    /\ reading = [f \in Files |-> 0]
    /\ outstanding = {ChatCall(1, <<WelcomeMessage>>, <<"a">>, Undefined, Null)}
    /\ ncalls = 1
    /\ nsent = 1
    /\ nfiles = 0
    /\ nodd = 0
    /\ lastSubmit = "accepted"

RenderReply ==
    /\ \E c \in outstanding, response \in GroundedResponses : ResolveWith(c, response)
    /\ UNCHANGED <<inputText, attachedImages, location, apiKey, reading, nsent,
                   nfiles, nodd, lastSubmit>>

RenderNext == RenderReply

RenderSpec == RenderInit /\ [][RenderNext]_vars

(***************************************************************************)
(* Properties of the session.                                              *)
(***************************************************************************)
UserCount(log) == Cardinality({i \in 1..Len(log) : log[i].role = "user"})

NonBlank(text) == \E i \in 1..Len(text) : text[i] # " "

Min(a, b) == IF a < b THEN a ELSE b

\* C1: at most one model call is outstanding after every step, and a submit
\* issued while the status is THINKING starts no call and appends nothing.
C1_SingleFlight ==
    [][/\ Cardinality(outstanding') <= 1
       /\ (status = THINKING /\ handleSendMessage) =>
            /\ messages' = messages
            /\ outstanding' = outstanding
            /\ ncalls' = ncalls
            /\ nsent' = nsent]_vars

\* a submit was rejected while a call was outstanding and an image, read during
\* the call, was staged
C1_Witness ==
    /\ status = THINKING
    /\ lastSubmit = "rejected"
    /\ Cardinality(outstanding) = 1
    /\ Len(attachedImages) > 0

\* C2: the log never holds more than 10 user messages, the limit is reached
\* exactly when it holds 10, and once it holds 10 no step adds a user message.
C2_TurnLimit ==
    [][/\ UserCount(messages') <= 10
       /\ isLimitReached' <=> (UserCount(messages') = 10)
       /\ UserCount(messages) >= 10 => UserCount(messages') = UserCount(messages)]_vars

\* at the limit a submit with a staged image was rejected
C2_Witness ==
    /\ UserCount(messages) = 10
    /\ status = IDLE
    /\ Len(attachedImages) > 0
    /\ lastSubmit = "rejected"

\* C3: a submit with a blank text and nothing staged, or while THINKING, or at
\* the limit, changes neither the log, the text buffer, the staged images, the
\* status nor the calls made.
C3_RejectedSubmitIsNoOp ==
    [][(/\ handleSendMessage
        /\ \/ (~NonBlank(inputText) /\ attachedImages = <<>>)
           \/ status = THINKING
           \/ UserCount(messages) >= 10)
       => UNCHANGED <<messages, inputText, attachedImages, status, outstanding,
                      ncalls, nsent>>]_vars

\* the 11th submit after ten resolved turns was rejected: 21 messages, idle
C3_Witness ==
    /\ UserCount(messages) = 10
    /\ Len(messages) = 21
    /\ status = IDLE
    /\ outstanding = {}
    /\ lastSubmit = "rejected"

\* C4: when the model call fails, the log gains exactly one model message with
\* the fallback text after the user message of the turn, which stays; the
\* status is IDLE again and the number of user messages is unchanged.
C4_FailureAppendsFallback ==
    [][ShortFail =>
         /\ Len(messages') = Len(messages) + 1
         /\ SubSeq(messages', 1, Len(messages)) = messages
         /\ Last(messages).role = "user"
         /\ Last(messages').role = "model"
         /\ Last(messages').text = ErrorText
         /\ status' = IDLE
         /\ UserCount(messages') = UserCount(messages)]_vars

\* a request that was sent failed: the fallback follows the user message
C4_Witness ==
    /\ apiKey
    /\ nodd = 1
    /\ status = IDLE
    /\ Len(messages) >= 3
    /\ Last(messages).text = ErrorText
    /\ messages[Len(messages) - 1].role = "user"

\* C5: whenever the status is THINKING with the turn's user message last in
\* the log, eventually the status is IDLE and exactly one message, a model
\* message, follows that user message.
C5_BusyClears ==
    \A n \in 1..(2 * ShortMaxTurns) :
        (status = THINKING /\ Len(messages) = n)
        ~> (/\ status = IDLE
            /\ Len(messages) = n + 1
            /\ messages[n].role = "user"
            /\ messages[n + 1].role = "model")

\* a second submit was accepted after the first call resolved
C5_Witness ==
    /\ status = THINKING
    /\ Len(messages) = 4
    /\ messages[2].role = "user"
    /\ messages[3].role = "model"
    /\ messages[4].role = "user"

\* C6: a submit is accepted exactly when the text is non-blank or an image is
\* staged, the status is not THINKING and fewer than 10 user messages are in
\* the log; acceptance appends the user message with the text and the staged
\* images, empties the text buffer and the staging, and sets THINKING.
C6_SubmitAcceptance ==
    [][handleSendMessage =>
         IF /\ NonBlank(inputText) \/ Len(attachedImages) >= 1
            /\ status # THINKING
            /\ UserCount(messages) < 10
         THEN /\ Len(messages') = Len(messages) + 1
              /\ SubSeq(messages', 1, Len(messages)) = messages
              /\ Last(messages').role = "user"
              /\ Last(messages').text = inputText
              /\ ImagesOrEmpty(Last(messages').images) = attachedImages
              /\ inputText' = <<>>
              /\ attachedImages' = <<>>
              /\ status' = THINKING
         ELSE UNCHANGED <<messages, inputText, attachedImages, status>>]_vars

\* an image-only submit with a blank text was accepted
C6_Witness ==
    /\ status = THINKING
    /\ lastSubmit = "accepted"
    /\ ~NonBlank(Last(messages).text)
    /\ Last(messages).images # Undefined

\* C7: the history of every outstanding call is the log without its last
\* entry, and that last entry is the call's user message, whose text is the
\* text part of the one block that follows the history blocks.
C7_HistoryIsLogBeforeAppend ==
    \A c \in outstanding :
        /\ Len(messages) = Len(c.history) + 1
        /\ SubSeq(messages, 1, Len(messages) - 1) = c.history
        /\ Last(messages).role = "user"
        /\ Last(messages).text = c.newMessage
        /\ Last(messages).images = c.images
        /\ c.request # Undefined =>
             LET blocks == Value(c.request).contents
                 k == Min(Len(c.history), 10)
             IN  /\ Len(blocks) = k + 1
                 /\ blocks[k + 1].role = "user"
                 /\ blocks[k + 1].parts[1] = [text |-> c.newMessage]
                 /\ \A j \in 1..k :
                      blocks[j].parts[1] =
                        [text |-> messages[Len(messages) - 1 - k + j].text]

\* a request is outstanding whose history holds more messages than the window
C7_Witness ==
    \E c \in outstanding :
        /\ c.request # Undefined
        /\ Len(c.history) > 10
        /\ UserCount(c.history) >= 5

(***************************************************************************)
(* Properties of the request chatWithDoctor builds.                        *)
(***************************************************************************)
IsDataURI(img) == img # <<>> /\ Head(img) = "data:"

DataURICount(imgs) == Cardinality({q \in 1..Len(imgs) : IsDataURI(imgs[q])})

\* C8: the request holds min(n, 10) history blocks, the last min(n, 10)
\* messages of the history in order with their roles and texts, and then one
\* user block for the new turn.
C8_WindowIsLastTen ==
    \A c \in outstanding :
        c.request # Undefined =>
            LET blocks == Value(c.request).contents
                n == Len(c.history)
                k == Min(n, 10)
            IN  /\ Len(blocks) = k + 1
                /\ \A j \in 1..k :
                     /\ blocks[j].role = c.history[n - k + j].role
                     /\ blocks[j].parts[1] = [text |-> c.history[n - k + j].text]
                /\ blocks[k + 1].role = "user"
                /\ blocks[k + 1].parts[1] = [text |-> c.newMessage]

\* a history of 11 messages gave 10 history blocks, the oldest message dropped
C8_Witness ==
    \E c \in outstanding :
        /\ Len(c.history) = 11
        /\ Len(Value(c.request).contents) = 11
        /\ Value(c.request).contents[1].parts[1] = [text |-> c.history[2].text]

\* C9: a history block holds image parts only at the last 2 positions of the
\* window; every earlier block, and every block of a message without images,
\* holds its text part alone.
C9_ImagesOnlyInLastTwo ==
    \A c \in outstanding :
        c.request # Undefined =>
            LET blocks == Value(c.request).contents
                n == Len(c.history)
                k == Min(n, 10)
            IN  \A j \in 1..k :
                    /\ j < k - 1 => Len(blocks[j].parts) = 1
                    /\ ImagesOrEmpty(c.history[n - k + j].images) = <<>>
                         => Len(blocks[j].parts) = 1
                    /\ \A p \in 2..Len(blocks[j].parts) :
                         DOMAIN blocks[j].parts[p] = {"inlineData"}

\* a message with images early in the window went out as text only while one
\* of the last two carried an image part
C9_Witness ==
    \E c \in outstanding :
        LET blocks == Value(c.request).contents
            n == Len(c.history)
            k == Min(n, 10)
        IN  /\ k >= 3
            /\ c.history[n - k + 1].images # Undefined
            /\ Len(blocks[1].parts) = 1
            /\ \E j \in {k - 1, k} : Len(blocks[j].parts) > 1

\* C10 as stated: no image that is not a data-URI is forwarded, from the
\* history or from the new message; the final block holds an image part only
\* for the attached images that are data-URIs.
C10_NonDataURINeverForwarded ==
    \A c \in outstanding :
        c.request # Undefined =>
            LET blocks == Value(c.request).contents
                n == Len(c.history)
                k == Min(n, 10)
                imgs == ImagesOrEmpty(c.images)
            IN  /\ \A j \in 1..k :
                     Len(blocks[j].parts) - 1
                       <= DataURICount(ImagesOrEmpty(c.history[n - k + j].images))
                /\ Len(blocks[k + 1].parts) - 1 = DataURICount(imgs)

\* C10 amended: an image of a history message that is not a data-URI is never
\* forwarded; every image of the new message is forwarded, in order, and one
\* that is not a data-URI goes out as image/jpeg with its payload unchanged.
C10_NonDataURISkippedInHistoryOnly ==
    \A c \in outstanding :
        c.request # Undefined =>
            LET blocks == Value(c.request).contents
                n == Len(c.history)
                k == Min(n, 10)
                imgs == ImagesOrEmpty(c.images)
            IN  /\ \A j \in 1..k :
                     LET himgs == ImagesOrEmpty(c.history[n - k + j].images)
                     IN  /\ Len(blocks[j].parts) - 1 <= DataURICount(himgs)
                         /\ \A p \in 2..Len(blocks[j].parts) :
                              \E q \in 1..Len(himgs) :
                                 /\ IsDataURI(himgs[q])
                                 /\ blocks[j].parts[p].inlineData.data
                                      \in {himgs[q], SubSeq(himgs[q], 5, Len(himgs[q]))}
                /\ Len(blocks[k + 1].parts) = 1 + Len(imgs)
                /\ \A q \in 1..Len(imgs) :
                     ~IsDataURI(imgs[q]) =>
                        blocks[k + 1].parts[q + 1] =
                          [inlineData |->
                             [mimeType |-> <<"image/", "jpeg">>, data |-> imgs[q]]]

\* the last history message and the new message both hold an image that is
\* not a data-URI: the first was skipped, the second was sent
C10_Witness ==
    \E c \in outstanding :
        LET blocks == Value(c.request).contents
            n == Len(c.history)
            imgs == ImagesOrEmpty(c.images)
        IN  /\ n >= 1
            /\ \E q \in 1..Len(ImagesOrEmpty(c.history[n].images)) :
                  ~IsDataURI(ImagesOrEmpty(c.history[n].images)[q])
            /\ Len(blocks[Len(blocks) - 1].parts) - 1
                 < Len(ImagesOrEmpty(c.history[n].images))
            /\ \E q \in 1..Len(imgs) : ~IsDataURI(imgs[q])
            /\ Len(Last(blocks).parts) = 1 + Len(imgs)

\* C11: the staged collection never holds more than two images and no message
\* of the log carries more than two images, whatever the interleaving of file
\* selections, read completions, removals and submits.
C11_AtMostTwoImages ==
    /\ Len(attachedImages) <= ImageSlots
    /\ \A i \in 1..Len(messages) :
         Len(ImagesOrEmpty(messages[i].images)) <= ImageSlots

\* C12: the last content block of every request is the user block of the new
\* turn and holds, after its text, one part for every image of the new message
\* in order, whatever the length of the history and whichever images of the
\* history were left out.
C12_NewImagesAllSent ==
    \A c \in outstanding :
        c.request # Undefined =>
            LET final == Last(Value(c.request).contents)
                imgs == ImagesOrEmpty(c.images)
            IN  /\ final.role = "user"
                /\ final.parts[1] = [text |-> c.newMessage]
                /\ Len(final.parts) = 1 + Len(imgs)
                /\ \A q \in 1..Len(imgs) :
                     final.parts[q + 1].inlineData.data
                       \in {imgs[q], SubSeq(imgs[q], 5, Len(imgs[q]))}

\* a history longer than the window whose last message lost an image and
\* whose third last message lost all of them, and a new message with two
\* images, both sent
C12_Witness ==
    \E c \in outstanding :
        LET blocks == Value(c.request).contents
            n == Len(c.history)
        IN  /\ n > MAX_HISTORY_MESSAGES
            /\ Len(ImagesOrEmpty(c.history[n - 2].images)) > 0
            /\ Len(blocks[Len(blocks) - 3].parts) = 1
            /\ Len(blocks[Len(blocks) - 1].parts) - 1
                 < Len(ImagesOrEmpty(c.history[n].images))
            /\ Len(ImagesOrEmpty(c.images)) = 2
            /\ Len(Last(blocks).parts) = 3

\* C13: every step leaves the log unchanged or appends exactly one message at
\* its end, and the first entry of the log is always the greeting of the
\* model.
C13_LogAppendOnly ==
    [][/\ \/ messages' = messages
          \/ /\ Len(messages') = Len(messages) + 1
             /\ SubSeq(messages', 1, Len(messages)) = messages
       /\ messages'[1] = WelcomeMessage
       /\ messages'[1].role = "model"]_vars

\* a whole session was appended behind the greeting
C13_Witness ==
    /\ Len(messages) = 2 * MAX_TURNS + 1
    /\ messages[1] = WelcomeMessage
    /\ \E i \in 2..Len(messages) : messages[i] = errorMsg

\* C14: when the service answers a request with a response that has no text,
\* or an empty one, and no grounding metadata, the step appends one model
\* message with the clarification text, which is neither the fallback text nor
\* empty, and sets the status to IDLE.
C14_EmptyReplyAsksAgain ==
    [][\A c \in outstanding, response \in Responses :
          (/\ c.request # Undefined
           /\ response.text \in {Undefined, Some(<<>>)}
           /\ response.groundingMetadata = Undefined
           /\ ResolveWith(c, response))
          => /\ messages' =
                  Append(messages, Message("model", ClarifyText, Undefined, Undefined))
             /\ Last(messages').text \notin {ErrorText, <<>>}
             /\ status' = IDLE]_vars

\* an empty reply was answered with the clarification text
C14_Witness ==
    /\ Len(messages) >= 3
    /\ messages[Len(messages) - 1].role = "user"
    /\ Last(messages) = Message("model", ClarifyText, Undefined, Undefined)
    /\ status = IDLE
    /\ nodd >= 1

\* C15: without a credential the session starts with the greeting and takes
\* submits; no request is ever sent to the service, every accepted submit
\* appends the user message and is answered by exactly one fallback message,
\* and the status is IDLE again once the fallback is in the log.
C15_NoKeyFallsBack ==
    ~apiKey =>
        /\ messages[1] = WelcomeMessage
        /\ nsent = 0
        /\ \A c \in outstanding : c.request = Undefined
        /\ \A i \in 2..Len(messages) :
             IF i % 2 = 0 THEN messages[i].role = "user"
                          ELSE messages[i] = Message("model", ErrorText, Undefined, Undefined)
        /\ Len(messages) = 1 + 2 * ncalls - Cardinality(outstanding)
        /\ (status = IDLE) <=> (outstanding = {})
        /\ (status = IDLE) <=> (Len(messages) % 2 = 1)

\* without a credential, a whole session of submits was taken and answered
C15_Witness ==
    /\ ~apiKey
    /\ ncalls = MAX_TURNS
    /\ nsent = 0
    /\ status = IDLE
    /\ Last(messages) = Message("model", ErrorText, Undefined, Undefined)

\* C16: every request in flight enables the googleMaps tool, and the request a
\* submit starts carries the tool configuration, with the coordinates of the
\* location, exactly when the location was known in the state the submit was
\* accepted in.
C16_ToolsAndLocation ==
    [][\A c \in outstanding' :
          c.request # Undefined =>
             LET req == Value(c.request)
             IN  /\ req.tools = <<"googleMaps">>
                 /\ (c \notin outstanding) =>
                      /\ (req.toolConfig # Undefined) <=> (location # Null)
                      /\ (location # Null) =>
                           Value(req.toolConfig).retrievalConfig.latLng =
                             [latitude |-> Value(location).latitude,
                              longitude |-> Value(location).longitude]]_vars

\* the location became known while a request without coordinates was in flight
C16_Witness ==
    \E c \in outstanding :
        /\ c.request # Undefined
        /\ Value(c.request).tools = <<"googleMaps">>
        /\ Value(c.request).toolConfig = Undefined
        /\ location # Null

(***************************************************************************)
(* Properties of renderGrounding.                                          *)
(***************************************************************************)
IsMapReference(c) ==
    /\ "web" \in DOMAIN c
    /\ "uri" \in DOMAIN c.web
    /\ \E k \in 1..Len(c.web.uri) : c.web.uri[k] = "google.com/maps"

MapPositions(chunks) == {k \in 1..Len(chunks) : IsMapReference(chunks[k])}

\* the j-th smallest position of a set of positions
NthPosition(positions, j) ==
    CHOOSE k \in positions : Cardinality({m \in positions : m <= k}) = j

\* C17: for the grounding chunks of every message, the filter returns exactly
\* the chunks whose URI is a map reference, in the order of the source, the
\* filter applied to its own result returns that result, and the links shown
\* are the URIs of that result.
C17_FilterKeepsMapChunksInOrder ==
    \A i \in 1..Len(messages) :
        LET meta == messages[i].groundingMetadata
        IN  (meta # Undefined /\ "groundingChunks" \in DOMAIN Value(meta)) =>
              LET chunks == Value(meta).groundingChunks
                  kept == mapChunks(chunks)
                  positions == MapPositions(chunks)
                  links == renderGrounding(meta)
              IN  /\ Len(kept) = Cardinality(positions)
                  /\ \A j \in 1..Len(kept) : kept[j] = chunks[NthPosition(positions, j)]
                  /\ mapChunks(kept) = kept
                  /\ (links = Null) <=> (positions = {})
                  /\ links # Null =>
                       /\ Len(Value(links)) = Len(kept)
                       /\ \A j \in 1..Len(kept) : Value(links)[j].href = kept[j].web.uri

\* a reply with a map chunk, a chunk that is none, and another map chunk behind
\* it: two links are shown, in that order
C17_Witness ==
    \E i \in 1..Len(messages) :
        LET meta == messages[i].groundingMetadata
        IN  /\ meta # Undefined
            /\ "groundingChunks" \in DOMAIN Value(meta)
            /\ Len(Value(meta).groundingChunks) = 3
            /\ mapChunks(Value(meta).groundingChunks) = <<MapChunkUntitled, MapChunk>>
            /\ Value(meta).groundingChunks[2] \in {WebChunk, MapsChunk, EmptyUriChunk}
            /\ Value(renderGrounding(meta)) =
                 <<[href |-> MapChunkUntitled.web.uri, title |-> "Google Maps"],
                   [href |-> MapChunk.web.uri, title |-> "clinic"]>>

\* C18: in every reachable state the number of chatWithDoctor calls started
\* equals the number of user messages in the log, also after a call failed:
\* a failed call is not started again.
C18_OneCallPerUserMessage ==
    /\ ncalls = UserCount(messages)
    /\ Cardinality(outstanding) <= ncalls

\* a call failed, a later submit was accepted, and the counts still agree
C18_Witness ==
    /\ \E i \in 2..(Len(messages) - 1) : messages[i] = errorMsg
    /\ Last(messages).role = "user"
    /\ ncalls = UserCount(messages)
    /\ ncalls >= 2
    /\ status = THINKING

\* C19: while the status is THINKING, after the accepted submit has cleared
\* them, the staged images and the text buffer are empty, also when a read
\* started before the submit ends during the call.
C19_StagingEmptyWhileThinking ==
    status = THINKING => (attachedImages = <<>> /\ inputText = <<>>)

\* C20: every model message of the log shows something: its text is not empty
\* or renderGrounding gives at least one link for it, whatever successful
\* response the service gave.
C20_NoEmptyBubble ==
    \A i \in 1..Len(messages) :
        messages[i].role = "model" =>
            \/ messages[i].text # <<>>
            \/ renderGrounding(messages[i].groundingMetadata) # Null

\* C21: the roles of the log alternate from the greeting of the model on
\* (model, user, model, user, ...), the status is THINKING exactly when the
\* last entry is a user message, and so an idle log holds one model message
\* more than user messages; the log never holds more than 2 * MAX_TURNS + 1
\* entries.
C21_RolesAlternate ==
    /\ \A i \in 1..Len(messages) :
         messages[i].role = (IF i % 2 = 1 THEN "model" ELSE "user")
    /\ (status = THINKING) <=> (Last(messages).role = "user")
    /\ status \in {IDLE, THINKING}
    /\ status = IDLE =>
         Cardinality({i \in 1..Len(messages) : messages[i].role = "model"})
           = UserCount(messages) + 1
    /\ Len(messages) <= 2 * MAX_TURNS + 1

\* the longest log: the last turn was answered and the session is idle, with
\* a failed call and a reply among the answers
C21_Witness ==
    /\ Len(messages) = 2 * MAX_TURNS + 1
    /\ status = IDLE
    /\ UserCount(messages) = MAX_TURNS
    /\ \E i, j \in 2..Len(messages) :
         /\ messages[i] = errorMsg
         /\ messages[j].role = "model" /\ messages[j].text = ReplyText

====
